---- MODULE Spec2Model ----
(***************************************************************************)
(* Model of the coffee-demo reporting server (src/main.go).                *)
(*                                                                         *)
(* The process builds one reportingServer at startup (newReportingServer), *)
(* routes GET /report to loggingHandler(reportHandler) and serves every    *)
(* request on its own goroutine.  The document store is an external        *)
(* collaborator: its collections are modelled as sequences, its calls as   *)
(* steps that either answer, fail, or are abandoned when the request's     *)
(* context deadline has elapsed.                                           *)
(***************************************************************************)
EXTENDS Integers, Sequences, FiniteSets, TLC

VARIABLES
    mongoConnString,  \* the -mongo flag
    rs,               \* what newReportingServer returned
    orders,           \* the orders collection, in insertion (_id) order
    accounts,         \* the employeeAccounts collection
    inserted,         \* orders added by the order-entry process so far
    pc,               \* per request: where its goroutine stands
    ctx,              \* per request: state of the context made on line 67
    res,              \* per handler invocation: the local `res` of line 65
    cursors,          \* per request: state and batch of its three cursors
    resp,             \* per request: the http.ResponseWriter
    log               \* per request: what the request observed (history)

vars == <<mongoConnString, rs, orders, accounts, inserted,
          pc, ctx, res, cursors, resp, log>>

-----------------------------------------------------------------------------
(* Bounds of the model *)

\* orders the external order-entry process adds while requests run
MaxInserts == 1
\* largest employeeAccounts collection
MaxAccounts == 2

\* the concurrently served requests
Requests == {"r1", "r2"}

\* the orders the order-entry process may add while requests run: a quantity,
\* an amount (one that fits a float32 sum, or one too large for it), and
\* whether the stored document decodes into coffeeOrder
NewOrders ==
    {[coffeeqty |-> 2, amount |-> "small", ok |-> TRUE],
     [coffeeqty |-> 3, amount |-> "huge", ok |-> FALSE]}

-----------------------------------------------------------------------------
(* Program constants *)

reportOrderCount == 5

-----------------------------------------------------------------------------
(* Records of the document store *)

\* An orders document: its insertion key, its quantity, its amount and
\* whether it decodes into coffeeOrder.
Order(k, q, a, ok) == [id |-> k, coffeeqty |-> q, amount |-> a, ok |-> ok]

\* An employeeAccounts document.
Account(k, ok) == [id |-> k, ok |-> ok]

\* Seven orders with increasing keys and quantities 1..7.
SeedOrders == [k \in 1..7 |-> Order(k, k, "small", TRUE)]

\* The same collection with one record that does not decode.
SeedOrdersBad == [k \in 1..7 |-> Order(k, k, "small", k # 6)]

\* Initial contents of the orders collection.
InitOrders == {SubSeq(SeedOrders, 1, n) : n \in 0..7} \cup {SeedOrdersBad}

\* Initial contents of the orders collection in the runs with two requests.
InitOrdersFew == {SubSeq(SeedOrders, 1, 1)}

\* Initial contents of the employeeAccounts collection.
InitAccounts ==
    {<<>>} \cup {[k \in 1..MaxAccounts |-> Account(k, k # bad)] : bad \in 0..1}

\* Initial contents of the employeeAccounts collection in the runs with two
\* requests.
InitAccountsFew == {<<Account(1, TRUE)>>}

-----------------------------------------------------------------------------
(* Pure helpers *)

Min(a, b) == IF a < b THEN a ELSE b

RECURSIVE SumQty(_)
SumQty(s) == IF s = <<>> THEN 0 ELSE s[1].coffeeqty + SumQty(Tail(s))

\* $sum of the amounts, as a double: "huge" when it exceeds the float32 range.
SumAmount(s) ==
    IF \E i \in 1..Len(s) : s[i].amount = "huge" THEN "huge" ELSE "small"

\* float32(d): a double beyond the float32 range converts to +Inf.
Float32(d) == IF d = "huge" THEN "+Inf" ELSE d

\* Position of the record with the largest _id.
MaxIdx(s) == CHOOSE i \in 1..Len(s) : \A j \in 1..Len(s) : s[j].id <= s[i].id

RemoveAt(s, i) == SubSeq(s, 1, i - 1) \o SubSeq(s, i + 1, Len(s))

\* Sort(_id: -1)
RECURSIVE SortIdDesc(_)
SortIdDesc(s) ==
    IF s = <<>> THEN <<>>
    ELSE <<s[MaxIdx(s)]>> \o SortIdDesc(RemoveAt(s, MaxIdx(s)))

\* Limit(n)
Limit(s, n) == SubSeq(s, 1, Min(n, Len(s)))

\* MUTANT: sorts ascending (Sort(_id: 1)).
FindRecentOrdersAscending(coll) == Limit(coll, reportOrderCount)

\* The result of Find(ctx, nil, Sort(_id: -1), Limit(reportOrderCount)).
FindRecentOrders(coll) == Limit(SortIdDesc(coll), reportOrderCount)

\* The result of Aggregate([{$group: {_id: 0, totalSales: {$sum: "$coffeeqty"},
\* totalRevenue: {$sum: "$amount"}}}]): one document, none for an empty collection.
AggregateTotals(coll) ==
    IF coll = <<>> THEN <<>>
    ELSE <<[totalSales |-> SumQty(coll), totalRevenue |-> SumAmount(coll)]>>

\* cursor.Decode(&order): the decoded coffeeOrder.
DecodeOrder(doc) ==
    [id |-> doc.id, coffeeqty |-> doc.coffeeqty, amount |-> Float32(doc.amount)]

\* cursor.Decode(&account): the decoded employeeAccount.
DecodeAccount(doc) == [id |-> doc.id]


-----------------------------------------------------------------------------
(* Startup *)

\* newReportingServer: nil when the connection cannot be made, a server
\* without client for an empty connection string, else a server with client.
newReportingServer(conn) ==
    IF conn = "" THEN [isNil |-> FALSE, mongo |-> "nil"]
    ELSE IF conn = "unreachable" THEN [isNil |-> TRUE, mongo |-> "nil"]
    ELSE [isNil |-> FALSE, mongo |-> "client"]

-----------------------------------------------------------------------------
(* The response writer *)

\* A fresh http.ResponseWriter: no header set, nothing sent.
NewResponse == [header |-> "", status |-> 0, contentType |-> "", body |-> <<>>]

\* The body `[]`.
EmptyArray ==
    [kind |-> "array", totalsales |-> 0, totalrevenue |-> "zero",
     recentsales |-> [isNull |-> TRUE, items |-> <<>>],
     employeeaccounts |-> [isNull |-> TRUE, items |-> <<>>]]

\* http.DetectContentType on the first bytes written: neither `[]` nor a JSON
\* object matches a sniffing signature.
DetectContentType(data) == "text/plain; charset=utf-8"

\* fmt.Fprint(w, data): the first write sends status 200 and the headers,
\* with a sniffed Content-Type when the handler has set none.
Write(w, data) ==
    IF w.status = 0
    THEN [w EXCEPT !.status = 200,
                   !.contentType = IF w.header # "" THEN w.header
                                   ELSE DetectContentType(data),
                   !.body = Append(@, data)]
    ELSE [w EXCEPT !.body = Append(@, data)]

\* w.Header().Set("Content-Type", v)
SetContentType(w, v) == [w EXCEPT !.header = v]

\* fmt.Fprintf(w, "[]")
WriteEmpty(w) == Write(w, EmptyArray)

-----------------------------------------------------------------------------
(* The report *)

\* res := report{}
NewReport ==
    [TotalSales |-> 0, TotalRevenue |-> "zero",
     RecentSales |-> <<>>, EmployeeAccounts |-> <<>>]

\* A slice field: a nil slice encodes as null.
jsonSlice(s) == [isNull |-> s = <<>>, items |-> s]

\* json.Marshal(res): fails on a float that is not finite.
jsonMarshal(r) ==
    [err |-> r.TotalRevenue = "+Inf",
     text |-> [kind |-> "object", totalsales |-> r.TotalSales,
               totalrevenue |-> r.TotalRevenue,
               recentsales |-> jsonSlice(r.RecentSales),
               employeeaccounts |-> jsonSlice(r.EmployeeAccounts)]]

\* Lines 126-132.  The totals are copied from the aggregation record if it
\* decodes; if not, the error is logged and the report keeps its zero totals.
DecodeTotals(report, doc, decodes) ==
    IF decodes
    THEN [report EXCEPT !.TotalSales = doc.totalSales,
                        !.TotalRevenue = Float32(doc.totalRevenue)]
    ELSE report

\* Lines 141-143.
NullToEmpty(text) == IF text.kind = "null" THEN EmptyArray ELSE text

\* MUTANT: the serialization failure path lacks its return.
RespondNoReturn(w, report) ==
    IF jsonMarshal(report).err
    THEN Write(SetContentType(WriteEmpty(w), "application/json"),
               NullToEmpty(jsonMarshal(report).text))
    ELSE Write(SetContentType(w, "application/json"),
               NullToEmpty(jsonMarshal(report).text))

\* Lines 134-147.  The report is serialized and written; `[]` is written if
\* that fails.
Respond(w, report) ==
    IF jsonMarshal(report).err
    THEN WriteEmpty(w)
    ELSE Write(SetContentType(w, "application/json"),
               NullToEmpty(jsonMarshal(report).text))

\* MUTANT: an aggregation without record is answered with the report as built.
NoTotalsResultAsBuilt(w, report) == Respond(w, report)

\* Lines 119-122.  What is written when the aggregation cursor yields no
\* record: `[]`, whatever the report holds.
NoTotalsResult(w, report) == WriteEmpty(w)

-----------------------------------------------------------------------------
(* Cursors, context and deferred calls *)

NoCursor == [state |-> "none", batch |-> <<>>, deferred |-> FALSE]

NoCursors == [order |-> NoCursor, account |-> NoCursor, total |-> NoCursor]

\* A cursor returned by Find or Aggregate.
OpenCursor(docs) == [state |-> "open", batch |-> docs, deferred |-> FALSE]

\* defer c.Close(ctx)
DeferClose(c) == [c EXCEPT !.deferred = TRUE]

\* The deferred Close calls run when the handler returns.
RunDefers(cs) ==
    [n \in DOMAIN cs |->
        IF cs[n].deferred THEN [cs[n] EXCEPT !.state = "closed"] ELSE cs[n]]

\* MUTANT: the aggregation gets a context without deadline.
OpCtxAggregateBackground(op) ==
    IF op = "aggregate" THEN "background" ELSE "request"

\* The context each database call is passed: always the one of line 67.
OpCtx(op) == "request"

\* Whether the context a call was passed has expired.
Expired(r, op) == OpCtx(op) = "request" /\ ctx[r] = "expired"

\* What a request has observed so far: the batch and the collection of its
\* orders query, the batch of its accounts query, the collection its
\* aggregation ran over, the steps that failed, the calls the deadline ended,
\* the contexts its database calls were passed and the number of contexts it
\* made.
NewLog ==
    [found |-> <<>>, foundAll |-> <<>>, accountsFound |-> <<>>, aggregated |-> <<>>,
     failures |-> {}, abandoned |-> {}, opCtx |-> {}, ctxMade |-> 0]

\* MUTANT: the report is a variable shared by all handler invocations.
ResSlotShared(r) == "r1"

\* The report a handler invocation works on: its own local `res`.
ResSlot(r) == r

-----------------------------------------------------------------------------
\* The server after startup with nothing stored or sent yet.
Started ==
    /\ mongoConnString \in {"", "unreachable", "mongodb://localhost:27017"}
    /\ rs = newReportingServer(mongoConnString)
    /\ inserted = 0
    /\ ctx = [r \in Requests |-> "none"]
    /\ res = [r \in Requests |-> NewReport]
    /\ cursors = [r \in Requests |-> NoCursors]
    /\ resp = [r \in Requests |-> NewResponse]
    /\ log = [r \in Requests |-> NewLog]

\* One request is sent.
InitOne ==
    /\ Started
    /\ pc = [r \in Requests |-> IF r = "r1" THEN "idle" ELSE "unsent"]
    /\ orders \in InitOrders
    /\ accounts \in InitAccounts
    /\ rs.mongo = "nil" => orders = <<>> /\ accounts = <<>>

\* All requests are sent.
InitAll ==
    /\ Started
    /\ pc = [r \in Requests |-> "idle"]
    /\ rs.mongo = "client"
    /\ orders \in InitOrdersFew
    /\ accounts \in InitAccountsFew

Init == InitOne \/ InitAll

-----------------------------------------------------------------------------
(* The environment *)

\* The external order-entry process stores one more order.
InsertOrder(o) ==
    /\ rs.mongo = "client"
    /\ inserted < MaxInserts
    /\ inserted' = inserted + 1
    /\ orders' = Append(orders, Order(Len(orders) + 1, o.coffeeqty, o.amount, o.ok))
    /\ UNCHANGED <<mongoConnString, rs, accounts, pc, ctx, res, cursors, resp, log>>

\* The deadline of the request's context (dbTimeout) elapses.
Timeout(r) ==
    /\ ctx[r] = "armed"
    /\ ctx' = [ctx EXCEPT ![r] = "expired"]
    /\ UNCHANGED <<mongoConnString, rs, orders, accounts, inserted,
                   pc, res, cursors, resp, log>>

-----------------------------------------------------------------------------
(* The handler: loggingHandler(reportHandler) *)

Failed(r, what) == [log EXCEPT ![r].failures = @ \cup {what}]

FailedBy(r, what, cause) ==
    [log EXCEPT ![r].failures = @ \cup {what},
                ![r].abandoned = IF cause = "deadline" THEN @ \cup {what} ELSE @]

Passed(l, r, op) == [l EXCEPT ![r].opCtx = @ \cup {OpCtx(op)}]

\* The handler returns: the deferred Close calls and cancel run.
Return(r, cs) ==
    /\ pc' = [pc EXCEPT ![r] = "done"]
    /\ ctx' = [ctx EXCEPT ![r] = "cancelled"]
    /\ cursors' = [cursors EXCEPT ![r] = RunDefers(cs)]

\* The handler writes `[]` and returns.
ReturnEmpty(r, cs) ==
    /\ resp' = [resp EXCEPT ![r] = WriteEmpty(@)]
    /\ Return(r, cs)

\* Why a call on a cursor or collection failed: the store or the network
\* ("net"), or the deadline of the context it was passed.
Cause(r, op, cause) ==
    \/ cause = "net"
    \/ cause = "deadline" /\ Expired(r, op)

\* Lines 153 and 65-69.  The request arrives: loggingHandler reads rs.log,
\* reportHandler makes its report and its context and reads rs.mongo.  On a
\* nil server or a nil client the goroutine panics: net/http recovers, closes
\* the connection and sends nothing.
Begin(r) ==
    /\ pc[r] = "idle"
    /\ IF rs.isNil
       THEN /\ pc' = [pc EXCEPT ![r] = "panicked"]
            /\ UNCHANGED <<ctx, res, log>>
       ELSE /\ res' = [res EXCEPT ![ResSlot(r)] = NewReport]
            /\ log' = [log EXCEPT ![r].ctxMade = @ + 1]
            /\ IF rs.mongo = "nil"
               THEN /\ pc' = [pc EXCEPT ![r] = "panicked"]
                    /\ ctx' = [ctx EXCEPT ![r] = "cancelled"]
               ELSE /\ pc' = [pc EXCEPT ![r] = "findOrders"]
                    /\ ctx' = [ctx EXCEPT ![r] = "armed"]
    /\ UNCHANGED <<mongoConnString, rs, orders, accounts, inserted, cursors, resp>>

\* MUTANT: the record is appended whether or not it decoded.
AppendDecodedAlways(list, doc, decoded) == Append(list, decoded)

\* Lines 82-84 and 98-100.  A record is appended only if it decoded.
AppendDecoded(list, doc, decoded) == IF doc.ok THEN Append(list, decoded) ELSE list

\* Lines 72, 79.  The orders query answers.
FindOrdersOK(r) ==
    /\ pc[r] = "findOrders"
    /\ ~Expired(r, "findOrders")
    /\ cursors' = [cursors EXCEPT
                     ![r].order = DeferClose(OpenCursor(FindRecentOrders(orders)))]
    /\ log' = Passed([log EXCEPT ![r].found = FindRecentOrders(orders),
                                 ![r].foundAll = orders], r, "findOrders")
    /\ pc' = [pc EXCEPT ![r] = "iterOrders"]
    /\ UNCHANGED <<mongoConnString, rs, orders, accounts, inserted, ctx, res, resp>>

\* Lines 72-77.  The orders query fails.
FindOrdersErr(r, cause) ==
    /\ pc[r] = "findOrders"
    /\ Cause(r, "findOrders", cause)
    /\ log' = Passed(FailedBy(r, "findOrders", cause), r, "findOrders")
    /\ ReturnEmpty(r, cursors[r])
    /\ UNCHANGED <<mongoConnString, rs, orders, accounts, inserted, res>>

\* Lines 80-85.  orderCursor.Next returns true: the record is decoded and,
\* if that succeeds, appended.
OrdersNext(r) ==
    /\ pc[r] = "iterOrders"
    /\ cursors[r].order.batch # <<>>
    /\ LET doc == Head(cursors[r].order.batch) IN
         /\ res' = [res EXCEPT ![ResSlot(r)].RecentSales =
                                  AppendDecoded(@, doc, DecodeOrder(doc))]
         /\ log' = IF doc.ok THEN Passed(log, r, "iterOrders")
                   ELSE Passed(Failed(r, "decodeOrder"), r, "iterOrders")
    /\ cursors' = [cursors EXCEPT ![r].order.batch = Tail(@)]
    /\ UNCHANGED <<mongoConnString, rs, orders, accounts, inserted, pc, ctx, resp>>

\* Line 80.  orderCursor.Next returns false: no record is left, or the call
\* failed (the error is never looked at).
OrdersEnd(r, cause) ==
    /\ pc[r] = "iterOrders"
    /\ IF cause = "exhausted"
       THEN cursors[r].order.batch = <<>> /\ log' = Passed(log, r, "iterOrders")
       ELSE /\ cursors[r].order.batch # <<>>
            /\ Cause(r, "iterOrders", cause)
            /\ log' = Passed(FailedBy(r, "iterOrders", cause), r, "iterOrders")
    /\ pc' = [pc EXCEPT ![r] = "findAccounts"]
    /\ UNCHANGED <<mongoConnString, rs, orders, accounts, inserted,
                   ctx, res, cursors, resp>>

\* Lines 88, 95.  The accounts query answers.
FindAccountsOK(r) ==
    /\ pc[r] = "findAccounts"
    /\ ~Expired(r, "findAccounts")
    /\ cursors' = [cursors EXCEPT ![r].account = DeferClose(OpenCursor(accounts))]
    /\ log' = Passed([log EXCEPT ![r].accountsFound = accounts], r, "findAccounts")
    /\ pc' = [pc EXCEPT ![r] = "iterAccounts"]
    /\ UNCHANGED <<mongoConnString, rs, orders, accounts, inserted, ctx, res, resp>>

\* Lines 88-93.  The accounts query fails.
FindAccountsErr(r, cause) ==
    /\ pc[r] = "findAccounts"
    /\ Cause(r, "findAccounts", cause)
    /\ log' = Passed(FailedBy(r, "findAccounts", cause), r, "findAccounts")
    /\ ReturnEmpty(r, cursors[r])
    /\ UNCHANGED <<mongoConnString, rs, orders, accounts, inserted, res>>

\* Lines 96-101.  accountCursor.Next returns true.
AccountsNext(r) ==
    /\ pc[r] = "iterAccounts"
    /\ cursors[r].account.batch # <<>>
    /\ LET doc == Head(cursors[r].account.batch) IN
         /\ res' = [res EXCEPT ![ResSlot(r)].EmployeeAccounts =
                                  AppendDecoded(@, doc, DecodeAccount(doc))]
         /\ log' = IF doc.ok THEN Passed(log, r, "iterAccounts")
                   ELSE Passed(Failed(r, "decodeAccount"), r, "iterAccounts")
    /\ cursors' = [cursors EXCEPT ![r].account.batch = Tail(@)]
    /\ UNCHANGED <<mongoConnString, rs, orders, accounts, inserted, pc, ctx, resp>>

\* Line 96.  accountCursor.Next returns false.
AccountsEnd(r, cause) ==
    /\ pc[r] = "iterAccounts"
    /\ IF cause = "exhausted"
       THEN cursors[r].account.batch = <<>> /\ log' = Passed(log, r, "iterAccounts")
       ELSE /\ cursors[r].account.batch # <<>>
            /\ Cause(r, "iterAccounts", cause)
            /\ log' = Passed(FailedBy(r, "iterAccounts", cause), r, "iterAccounts")
    /\ pc' = [pc EXCEPT ![r] = "aggregate"]
    /\ UNCHANGED <<mongoConnString, rs, orders, accounts, inserted,
                   ctx, res, cursors, resp>>

\* Lines 103-118.  The aggregation answers.
AggregateOK(r) ==
    /\ pc[r] = "aggregate"
    /\ ~Expired(r, "aggregate")
    /\ cursors' = [cursors EXCEPT ![r].total = OpenCursor(AggregateTotals(orders))]
    /\ log' = Passed([log EXCEPT ![r].aggregated = orders], r, "aggregate")
    /\ pc' = [pc EXCEPT ![r] = "totalNext"]
    /\ UNCHANGED <<mongoConnString, rs, orders, accounts, inserted, ctx, res, resp>>

\* Lines 118-123, err != nil.  The aggregation fails.
AggregateErr(r, cause) ==
    /\ pc[r] = "aggregate"
    /\ Cause(r, "aggregate", cause)
    /\ log' = Passed(FailedBy(r, "aggregate", cause), r, "aggregate")
    /\ ReturnEmpty(r, cursors[r])
    /\ UNCHANGED <<mongoConnString, rs, orders, accounts, inserted, res>>

\* Lines 119-123, !totalCursor.Next(ctx).  The aggregation cursor has no
\* record, or Next fails: `[]` is written and the handler returns before the
\* Close of line 125 is deferred.
TotalNextFalse(r, cause) ==
    /\ pc[r] = "totalNext"
    /\ IF cause = "exhausted"
       THEN cursors[r].total.batch = <<>>
       ELSE cursors[r].total.batch # <<>> /\ Cause(r, "totalNext", cause)
    /\ log' = Passed(FailedBy(r, "totalNext", cause), r, "totalNext")
    /\ resp' = [resp EXCEPT ![r] = NoTotalsResult(@, res[ResSlot(r)])]
    /\ Return(r, cursors[r])
    /\ UNCHANGED <<mongoConnString, rs, orders, accounts, inserted, res>>

\* Lines 119-148.  totalCursor.Next returns true: its Close is deferred, the
\* totals are decoded, the report is serialized and written, the handler
\* returns.
Finish(r, decodes) ==
    /\ pc[r] = "totalNext"
    /\ cursors[r].total.batch # <<>>
    /\ LET report == DecodeTotals(res[ResSlot(r)], Head(cursors[r].total.batch), decodes)
           fails == (IF decodes THEN {} ELSE {"decodeTotals"}) \cup
                    (IF jsonMarshal(report).err THEN {"marshal"} ELSE {})
       IN
         /\ res' = [res EXCEPT ![ResSlot(r)] = report]
         /\ resp' = [resp EXCEPT ![r] = Respond(@, report)]
         /\ log' = Passed([log EXCEPT ![r].failures = @ \cup fails], r, "totalNext")
    /\ Return(r, [cursors[r] EXCEPT !.total = DeferClose([@ EXCEPT !.batch = Tail(@)])])
    /\ UNCHANGED <<mongoConnString, rs, orders, accounts, inserted>>

-----------------------------------------------------------------------------
Causes == {"net", "deadline"}

EndCauses == {"exhausted", "net", "deadline"}

Next ==
    \/ \E o \in NewOrders : InsertOrder(o)
    \/ \E r \in Requests : Timeout(r)
    \/ \E r \in Requests : Begin(r)
    \/ \E r \in Requests : FindOrdersOK(r)
    \/ \E r \in Requests, c \in Causes : FindOrdersErr(r, c)
    \/ \E r \in Requests : OrdersNext(r)
    \/ \E r \in Requests, c \in EndCauses : OrdersEnd(r, c)
    \/ \E r \in Requests : FindAccountsOK(r)
    \/ \E r \in Requests, c \in Causes : FindAccountsErr(r, c)
    \/ \E r \in Requests : AccountsNext(r)
    \/ \E r \in Requests, c \in EndCauses : AccountsEnd(r, c)
    \/ \E r \in Requests : AggregateOK(r)
    \/ \E r \in Requests, c \in Causes : AggregateErr(r, c)
    \/ \E r \in Requests, c \in EndCauses : TotalNextFalse(r, c)
    \/ \E r \in Requests, d \in BOOLEAN : Finish(r, d)

Spec == Init /\ [][Next]_vars

\* The steps that happen whatever the store does: the deadline timer fires, a
\* call whose context has expired returns, and a loop over a cursor that has
\* nothing left ends.
FairStep(r) ==
    \/ Timeout(r)
    \/ FindOrdersErr(r, "deadline")
    \/ OrdersEnd(r, "deadline") \/ OrdersEnd(r, "exhausted")
    \/ FindAccountsErr(r, "deadline")
    \/ AccountsEnd(r, "deadline") \/ AccountsEnd(r, "exhausted")
    \/ AggregateErr(r, "deadline")
    \/ TotalNextFalse(r, "deadline") \/ TotalNextFalse(r, "exhausted")

\* The store may stay silent forever; the timer and the goroutine do not.
LiveSpec == InitOne /\ [][Next]_vars /\ \A r \in Requests : WF_vars(FairStep(r))

-----------------------------------------------------------------------------
(* Properties *)

Done(r) == pc[r] = "done"

Body(r) == resp[r].body

IsEmptyArray(r) == Body(r) = <<EmptyArray>>

IsReport(r) == Len(Body(r)) = 1 /\ Body(r)[1].kind = "object"

RECURSIVE DecodedOrders(_)
DecodedOrders(docs) ==
    IF docs = <<>> THEN <<>>
    ELSE (IF docs[1].ok THEN <<DecodeOrder(docs[1])>> ELSE <<>>)
         \o DecodedOrders(Tail(docs))

RECURSIVE DecodedAccounts(_)
DecodedAccounts(docs) ==
    IF docs = <<>> THEN <<>>
    ELSE (IF docs[1].ok THEN <<DecodeAccount(docs[1])>> ELSE <<>>)
         \o DecodedAccounts(Tail(docs))

\* The records a cursor has handed out so far.
Consumed(found, batch) == SubSeq(found, 1, Len(found) - Len(batch))

Ids(s) == {s[i].id : i \in 1..Len(s)}

Qtys(s) == [i \in 1..Len(s) |-> s[i].coffeeqty]

\* C1: whenever a report object is returned, its totalsales is the sum of
\* coffeeqty over the whole orders collection as of the aggregation query.
C1_TotalSalesIsCollectionSum ==
    \A r \in Requests :
        Done(r) /\ IsReport(r) =>
            Body(r)[1].totalsales = SumQty(log[r].aggregated)

\* C2: with non-empty collections and no failing step the response is an
\* object whose recentsales holds min(reportOrderCount, count) orders, those
\* with the largest keys, in strictly descending key order; seven orders with
\* quantities 1..7 give quantities 7,6,5,4,3 and totalsales 28.
C2_RecentSalesNewestFirst ==
    \A r \in Requests :
        (/\ Done(r)
         /\ log[r].failures = {}
         /\ log[r].foundAll # <<>>
         /\ log[r].accountsFound # <<>>)
        =>
        /\ IsReport(r)
        /\ ~Body(r)[1].recentsales.isNull
        /\ LET items == Body(r)[1].recentsales.items
               all == log[r].foundAll
           IN
             /\ Len(items) = Min(reportOrderCount, Len(all))
             /\ Ids(items) \subseteq Ids(all)
             /\ \A a \in Ids(items), b \in Ids(all) \ Ids(items) : a > b
             /\ \A i, j \in 1..Len(items) : i < j => items[i].id > items[j].id
             /\ (all = SeedOrders /\ log[r].aggregated = SeedOrders) =>
                    /\ Qtys(items) = <<7, 6, 5, 4, 3>>
                    /\ Body(r)[1].totalsales = 28

C2_Witness ==
    \E r \in Requests :
        /\ Done(r) /\ log[r].failures = {} /\ log[r].accountsFound # <<>>
        /\ log[r].foundAll = SeedOrders
        /\ IsReport(r)
        /\ Qtys(Body(r)[1].recentsales.items) = <<7, 6, 5, 4, 3>>
        /\ Body(r)[1].totalsales = 28

\* C3: a request served while the orders collection is empty is answered
\* with exactly `[]`, whatever the accounts query gathered.
C3_EmptyOrdersGiveEmptyArray ==
    \A r \in Requests : Done(r) /\ orders = <<>> => IsEmptyArray(r)

C3_Witness ==
    \E r \in Requests :
        /\ Done(r) /\ orders = <<>>
        /\ log[r].failures = {"totalNext"}
        /\ res[r].EmployeeAccounts # <<>>
        /\ IsEmptyArray(r)

\* C4: with a nil server (the connection failed at startup) or a nil client
\* (empty connection string) no request panics and every request that has
\* been handled got exactly `[]`.
C4_NoHandleGivesEmptyArray ==
    \A r \in Requests :
        (rs.isNil \/ rs.mongo = "nil") =>
            /\ pc[r] # "panicked"
            /\ (pc[r] # "idle" /\ pc[r] # "unsent" => IsEmptyArray(r))

C6_ContentTypeJSON ==
    \A r \in Requests : Done(r) => resp[r].contentType = "application/json"

InDatabaseCall(r) ==
    pc[r] \in {"findOrders", "iterOrders", "findAccounts", "iterAccounts",
               "aggregate", "totalNext"}

ValidResponse(r) ==
    /\ resp[r].status = 200
    /\ Len(Body(r)) = 1
    /\ Body(r)[1].kind \in {"array", "object"}

\* C7: every database call of a request is passed the one context made at
\* the start of the request, and a request that is in a database call
\* eventually has written a valid response, even if the store never answers.
C7_OneDeadlineBoundsRequest ==
    /\ [](\A r \in Requests :
            /\ log[r].ctxMade <= 1
            /\ log[r].opCtx \subseteq {"request"}
            /\ (InDatabaseCall(r) => log[r].ctxMade = 1))
    /\ \A r \in Requests : InDatabaseCall(r) ~> (Done(r) /\ ValidResponse(r))

C7_Witness ==
    \E r \in Requests :
        /\ Done(r) /\ ValidResponse(r)
        /\ "aggregate" \in log[r].abandoned
        /\ log[r].opCtx = {"request"}

\* C8: at every moment each request's report holds exactly what its own
\* cursors handed out and its own aggregation returned, its response is the
\* serialization of its own report, and the server value is the one made at
\* startup.
C8_RequestsIsolated ==
    /\ rs = newReportingServer(mongoConnString)
    /\ \A r \in Requests :
        /\ res[r].RecentSales =
              DecodedOrders(Consumed(log[r].found, cursors[r].order.batch))
        /\ res[r].EmployeeAccounts =
              DecodedAccounts(Consumed(log[r].accountsFound, cursors[r].account.batch))
        /\ res[r].TotalSales \in {0, SumQty(log[r].aggregated)}
        /\ IsReport(r) => Body(r)[1] = jsonMarshal(res[r]).text

C8_Witness ==
    /\ \A r \in Requests : Done(r) /\ IsReport(r)
    /\ \E r1, r2 \in Requests :
        /\ Body(r1)[1].recentsales # Body(r2)[1].recentsales
        /\ Body(r1)[1].totalsales # Body(r2)[1].totalsales

\* C9: a record that fails to decode is left out, every other record of the
\* query appears in query order, and the report is not replaced by `[]` on
\* its account; for orders and for employee accounts alike.
C9_UndecodableRecordsSkipped ==
    \A r \in Requests :
        /\ (pc[r] \in {"findAccounts", "iterAccounts", "aggregate", "totalNext", "done"}
            /\ "iterOrders" \notin log[r].failures
            /\ "findOrders" \notin log[r].failures)
           => res[r].RecentSales = DecodedOrders(log[r].found)
        /\ (pc[r] \in {"aggregate", "totalNext", "done"}
            /\ "iterAccounts" \notin log[r].failures
            /\ "findAccounts" \notin log[r].failures)
           => res[r].EmployeeAccounts = DecodedAccounts(log[r].accountsFound)
        /\ (Done(r) /\ log[r].failures # {}
            /\ log[r].failures \subseteq {"decodeOrder", "decodeAccount"})
           => /\ IsReport(r)
              /\ Body(r)[1].recentsales.items = DecodedOrders(log[r].found)
              /\ Body(r)[1].employeeaccounts.items =
                    DecodedAccounts(log[r].accountsFound)

C9_Witness ==
    \E r \in Requests :
        /\ Done(r) /\ IsReport(r)
        /\ log[r].failures = {"decodeOrder", "decodeAccount"}
        /\ Ids(log[r].found) = {7, 6, 5, 4, 3}
        /\ Ids(Body(r)[1].recentsales.items) = {7, 5, 4, 3}
        /\ Len(Body(r)[1].employeeaccounts.items) = Len(log[r].accountsFound) - 1

\* C10: when the handler has returned, no cursor it opened is still open.
C10_CursorsClosedOnReturn ==
    \A r \in Requests :
        Done(r) => \A n \in DOMAIN cursors[r] : cursors[r][n].state # "open"

====
